---- MODULE Spec2Model ----
(***************************************************************************)
(* EscadraString (src/general/escadra_string.rs): a 32-byte string value   *)
(* that keeps up to 15 bytes inline and longer contents in a buffer        *)
(* obtained from libc malloc.  The model keeps the instances, the libc     *)
(* heap they point into, and a record of the last call.                    *)
(***************************************************************************)
EXTENDS Integers, Sequences, FiniteSets, TLC

\* ------------------------------------------------------------------ bounds
MaxInst == 2
MaxAddr == 2
MaxLen == 32
MaxNodes == 2
MaxLinks == 3

\* --------------------------------------------------------------- constants
InlineCap == 15
InlineSize == 16
NULL == 0
\* The value of a byte nobody has written (fresh malloc memory, union padding).
Uninit == -1
\* What a pointer read gives when the union last held non-zero chars.
Wild == -2

Inst == 1..MaxInst
Addr == 1..MaxAddr

\* ------------------------------------------------------------------ inputs
\* The byte string of length n of family seed (ASCII letters, position dependent).
Text(seed, n) ==
    SubSeq([k \in 1..n |-> 65 + ((k * seed) % 5)], 1, n)

\* Lengths: empty, the longest inline one, the shortest heap one, and one that
\* needs the buffer doubled more than once.
Lens ==
    {0, InlineCap, InlineSize, MaxLen}

\* The arguments of set_string: one text per length, and a second text of the
\* longest inline length.
Texts ==
    {Text(1, n) : n \in Lens} \cup {Text(2, InlineCap)}

\* ------------------------------------------------------------------- state
VARIABLES
    es,      \* es[i]: the fields of EscadraString i (string, length, max_length)
    live,    \* the instances that exist (constructed and not yet dropped)
    heap,    \* heap[a]: the libc block at address a
    proc,    \* "running", or "aborted" once the process has died
    faults,  \* the undefined behaviour the process has executed so far
    oom,     \* whether malloc may return NULL in this behaviour
    last,    \* last[i]: the argument of the latest set_string on i
    lastOp,  \* what the latest call was and what it did
    nodes,   \* nodes[n]: the a, b and c pointers of the TLL at address n
    self,    \* the TLL explore or print is called on, NULL when there is none
    status,  \* "idle", "exploring", "printing", "explored" or "printed"
    stack,   \* the frames of explore_internal or print_internal, innermost first
    visited, \* the HashSet visited
    result,  \* the HashMap result of explore
    printed, \* what print has written: one block per print_internal call
    calls,   \* the TLLs explore_internal or print_internal was called on, in order
    steps    \* the steps the traversal has taken

esVars == <<es, live, heap, proc, faults, oom, last, lastOp>>

tllVars == <<nodes, self, status, stack, visited, result, printed, calls, steps>>

vars == <<es, live, heap, proc, faults, oom, last, lastOp,
          nodes, self, status, stack, visited, result, printed, calls, steps>>

\* ------------------------------------------------------------ CharPointer
Zeros(n) ==
    SubSeq([k \in 1..n |-> 0], 1, n)

Blank(n) ==
    SubSeq([k \in 1..n |-> Uninit], 1, n)

\* union CharPointer written through its chars member.
CharsOf(buffer) ==
    [tag |-> "chars", chars |-> buffer, pointer |-> NULL]

\* union CharPointer written through its pointer member.
PointerOf(p) ==
    [tag |-> "pointer", chars |-> <<>>, pointer |-> p]

\* self.string.pointer: the first 8 bytes of the union read as an address.
ReadPointer(u) ==
    IF u.tag = "pointer" THEN u.pointer
    ELSE IF SubSeq(u.chars, 1, 8) = Zeros(8) THEN NULL ELSE Wild

\* self.string.chars: the 16 bytes of the union; after a pointer write they are
\* the address bytes and padding, none of them a byte the program chose.
ReadChars(u) ==
    IF u.tag = "chars" THEN u.chars ELSE Blank(InlineSize)

\* ------------------------------------------------------------------- libc
FreeBlock ==
    [live |-> FALSE, bytes |-> <<>>]

\* libc::free(p): NULL is a no-op; a live block is released.
free(h, p) ==
    IF p \in Addr /\ h[p].live THEN [h EXCEPT ![p] = FreeBlock] ELSE h

\* What is undefined about free(p) in heap h.
FreeFaults(h, p) ==
    IF p = NULL THEN {}
    ELSE IF p \notin Addr THEN {"invalid_free"}
    ELSE IF ~h[p].live THEN {"double_free"}
    ELSE {}

\* The addresses libc::malloc may return in heap h: any block not in use, or
\* NULL when the allocator is allowed to fail.
MallocChoices(h, mayFail) ==
    {a \in Addr : ~h[a].live} \cup (IF mayFail THEN {NULL} ELSE {})

\* libc::malloc(size) returning r: a block of size bytes nobody has written.
malloc(h, r, size) ==
    IF r = NULL THEN h ELSE [h EXCEPT ![r] = [live |-> TRUE, bytes |-> Blank(size)]]

\* Faulty variant of memcpy: the last byte is not copied.
memcpy_short(h, p, src, n) ==
    IF p \in Addr /\ h[p].live /\ n <= Len(h[p].bytes)
    THEN [h EXCEPT ![p].bytes =
             [k \in 1..Len(@) |-> IF k < n THEN src[k] ELSE @[k]]]
    ELSE h

\* libc::memcpy(p, src, n): bytes 0..n-1 of the block become src.
memcpy(h, p, src, n) ==
    IF p \in Addr /\ h[p].live /\ n <= Len(h[p].bytes)
    THEN [h EXCEPT ![p].bytes = SubSeq(src, 1, n) \o SubSeq(@, n + 1, Len(@))]
    ELSE h

\* Faulty variant of StoreByte: the store is left out.
StoreByte_skipped(h, p, off, b) ==
    h

\* *p.add(off) = b
StoreByte(h, p, off, b) ==
    IF p \in Addr /\ h[p].live /\ off < Len(h[p].bytes)
    THEN [h EXCEPT ![p].bytes[off + 1] = b]
    ELSE h

\* What is undefined about writing n bytes at p + off.
WriteFaults(h, p, off, n) ==
    IF p = NULL THEN {"null_write"}
    ELSE IF p \notin Addr \/ ~h[p].live THEN {"dangling_write"}
    ELSE IF off + n > Len(h[p].bytes) THEN {"overflow_write"}
    ELSE {}

\* ---------------------------------------------------------- EscadraString
\* EscadraString::new
new ==
    [string |-> CharsOf(Zeros(InlineSize)), length |-> 0, max_length |-> InlineCap]

\* The slot of an instance that does not exist.
Gone ==
    [string |-> CharsOf(Zeros(InlineSize)), length |-> 0, max_length |-> 0]

\* Faulty variant of GrowSize: the loop stops one byte early (< for <=).
RECURSIVE GrowSize_lt(_, _)
GrowSize_lt(size, n) ==
    IF size < n THEN GrowSize_lt(size * 2, n) ELSE size

\* Faulty variant of GrowSize: a byte-exact fit, whatever the previous size.
GrowSize_exact(size, n) ==
    IF size <= n THEN n + 1 ELSE size

\* while size <= string.len() { size *= 2 }
RECURSIVE GrowSize(_, _)
GrowSize(size, n) ==
    IF size <= n THEN GrowSize(size * 2, n) ELSE size

\* Faulty variant of CapacityOf: the terminator's byte is counted as capacity.
CapacityOf_size(size) ==
    size

\* self.max_length = (size - 1) as u64
CapacityOf(size) ==
    size - 1

\* Faulty variant of TakesReallocPath: a text of exactly 15 bytes goes to the heap.
TakesReallocPath_ge(e, s) ==
    e.max_length > InlineCap \/ Len(s) >= InlineCap

\* Faulty variant of TakesReallocPath: only the text's length decides.
TakesReallocPath_len_only(e, s) ==
    Len(s) > InlineCap

\* Whether set_string takes the branch that frees and allocates.
TakesReallocPath(e, s) ==
    e.max_length > InlineCap \/ Len(s) > InlineCap

\* The heap once set_string has released the previous buffer, if there was one.
FreeOld(e, h) ==
    IF e.max_length > InlineCap THEN free(h, ReadPointer(e.string)) ELSE h

\* The results malloc can give set_string(s) on e; the inline path asks for none.
SetStringChoices(e, h, s, mayFail) ==
    IF TakesReallocPath(e, s) THEN MallocChoices(FreeOld(e, h), mayFail)
    ELSE {NULL}

\* let mut buffer = [0u8; 16]; buffer[..string.len()].copy_from_slice(..)
InlineBuffer(s) ==
    s \o SubSeq(Zeros(InlineSize), Len(s) + 1, InlineSize)

\* EscadraString::set_string on instance e in heap h with malloc returning r:
\* the instance and the heap afterwards, and what the call did.
set_string(e, h, s, r) ==
    IF TakesReallocPath(e, s)
    THEN LET hadHeap == e.max_length > InlineCap
             old == ReadPointer(e.string)
             h1 == FreeOld(e, h)
             size == GrowSize(e.max_length + 1, Len(s))
             h2 == malloc(h1, r, size)
             h3 == memcpy(h2, r, s, Len(s))
             h4 == StoreByte(h3, r, Len(s), 0)
         IN  [es |-> [string |-> PointerOf(r), length |-> Len(s),
                      max_length |-> CapacityOf(size)],
              heap |-> h4,
              path |-> "realloc",
              allocs |-> 1,
              frees |-> IF hadHeap THEN 1 ELSE 0,
              size |-> size,
              failed |-> r = NULL,
              faults |-> (IF hadHeap THEN FreeFaults(h, old) ELSE {})
                         \cup WriteFaults(h2, r, 0, Len(s))
                         \cup WriteFaults(h2, r, Len(s), 1)]
    ELSE [es |-> [string |-> CharsOf(InlineBuffer(s)), length |-> Len(s),
                  max_length |-> e.max_length],
          heap |-> h,
          path |-> "inline",
          allocs |-> 0,
          frees |-> 0,
          size |-> 0,
          failed |-> FALSE,
          faults |-> {}]

\* What a read that is undefined (freed or foreign memory, out of range) gives.
Poison ==
    <<Wild>>

\* EscadraString::get_string
get_string(e, h) ==
    IF e.max_length > InlineCap
    THEN LET p == ReadPointer(e.string)
         IN  IF p \in Addr /\ h[p].live /\ e.length <= Len(h[p].bytes)
             THEN SubSeq(h[p].bytes, 1, e.length)
             ELSE Poison
    ELSE IF e.length <= InlineSize
         THEN SubSeq(ReadChars(e.string), 1, e.length)
         ELSE Poison

\* What is undefined about get_string on e in heap h.
ReadFaults(e, h) ==
    IF e.max_length > InlineCap
    THEN LET p == ReadPointer(e.string)
         IN  IF p \in Addr /\ h[p].live /\ e.length <= Len(h[p].bytes)
             THEN {} ELSE {"invalid_read"}
    ELSE {}

\* Faulty variant of clone: the fields are copied bit for bit.
clone_bitwise(e, h, r) ==
    [es |-> e, heap |-> h, path |-> "inline", allocs |-> 0, frees |-> 0,
     size |-> 0, failed |-> FALSE, faults |-> {}]

\* Faulty variant of clone: a bitwise-faithful copy that carries the
\* original's max_length over to the copy.
clone_keeps_capacity(e, h, r) ==
    [set_string(new, h, get_string(e, h), r) EXCEPT !.es.max_length = e.max_length]

\* impl Clone: the content as a String, a new instance, set_string.
clone(e, h, r) ==
    set_string(new, h, get_string(e, h), r)

\* Faulty variant of drop: the buffer is not released.
drop_forgets(e, h) ==
    h

\* impl Drop: the heap after the instance is dropped.
drop(e, h) ==
    IF e.max_length > InlineCap THEN free(h, ReadPointer(e.string)) ELSE h

DropFaults(e, h) ==
    IF e.max_length > InlineCap THEN FreeFaults(h, ReadPointer(e.string)) ELSE {}

\* ------------------------------------------------------ String conversions
\* Faulty variant of from_string: only what fits the inline buffer is kept.
from_string_truncating(value, h, r) ==
    set_string(new, h, SubSeq(value, 1,
                   IF Len(value) < InlineCap THEN Len(value) ELSE InlineCap), r)

\* impl From<String> for EscadraString: a new instance, set_string(&value).
from_string(value, h, r) ==
    set_string(new, h, value, r)

\* impl From<EscadraString> for String: val.get_string().to_string(); val is
\* taken by value and dropped, which into_string_heap accounts for.
into_string(e, h) ==
    get_string(e, h)

into_string_heap(e, h) ==
    drop(e, h)

\* ------------------------------------------------- equality, order, hash
\* Faulty variant of eq: the fields are compared, as a derived PartialEq would.
eq_fields(e1, e2, h) ==
    e1 = e2

\* impl PartialEq: self.get_string() == other.get_string()
eq(e1, e2, h) ==
    get_string(e1, h) = get_string(e2, h)

\* str's Ord: the first byte that differs decides, then the lengths.
StrCmp(s, t) ==
    LET m == IF Len(s) < Len(t) THEN Len(s) ELSE Len(t)
        diff == {k \in 1..m : s[k] # t[k]}
    IN  IF diff # {}
        THEN LET k == CHOOSE x \in diff : \A y \in diff : x <= y
             IN  IF s[k] < t[k] THEN "Less" ELSE "Greater"
        ELSE IF Len(s) < Len(t) THEN "Less"
        ELSE IF Len(s) > Len(t) THEN "Greater"
        ELSE "Equal"

\* impl Ord: self.get_string().cmp(other.get_string())
cmp(e1, e2, h) ==
    StrCmp(get_string(e1, h), get_string(e2, h))

\* A Hasher fed the bytes of s one by one, from state acc.
RECURSIVE HasherWrite(_, _)
HasherWrite(acc, s) ==
    IF s = <<>> THEN acc
    ELSE HasherWrite((acc * 31 + Head(s)) % 65521, Tail(s))

\* impl Hash: self.get_string().hash(state); str feeds its bytes and then 0xff.
hash(e, h) ==
    HasherWrite(0, get_string(e, h) \o <<255>>)

\* --------------------------------------------------------------------- TLL
\* The addresses of the TLL structs.
Node == 1..MaxNodes

\* The pointer fields explore and print follow.
Slots == {"a", "b", "c"}

\* struct TLLRef: the a, b and c pointers of one TLL, each a TLL or null.
TLLRefs ==
    [a : Node \cup {NULL}, b : Node \cup {NULL}, c : Node \cup {NULL}]

NullRef ==
    [a |-> NULL, b |-> NULL, c |-> NULL]

LinkCount(g) ==
    Cardinality({x \in Node \X Slots : g[x[1]][x[2]] # NULL})

\* The node graphs: every pointer is null or a TLL, at most MaxLinks are set.
Graphs ==
    {g \in [Node -> TLLRefs] : LinkCount(g) <= MaxLinks}

\* Faulty variant of Unvisited: the visited set is not consulted.
Unvisited_nonnull(p, v) ==
    p # NULL

\* !self.a.is_null() && !visited.contains(&self.a)
Unvisited(p, v) ==
    p # NULL /\ p \notin v

\* HashMap::insert
Insert(m, k, x) ==
    [y \in DOMAIN m \cup {k} |-> IF y = k THEN x ELSE m[y]]

\* The if that follows the one on slot at, "ret" after the last.
After(at) ==
    CASE at = "a" -> "b"
      [] at = "b" -> "c"
      [] at = "c" -> "ret"

\* The lines print_internal writes for TLL n at the given depth (the indent and
\* the pointers; the other fields are data that no step depends on).
Block(n, depth) ==
    [indent |-> 2 * depth, tll |-> n, a |-> nodes[n].a, b |-> nodes[n].b,
     c |-> nodes[n].c]

\* No traversal has been started.
TLLIdle ==
    /\ status = "idle"
    /\ stack = <<>>
    /\ visited = {}
    /\ result = <<>>
    /\ printed = <<>>
    /\ calls = <<>>
    /\ steps = 0

\* ----------------------------------------------------------------- actions
NoOp ==
    [op |-> "none", inst |-> 0, src |-> 0, prevCap |-> 0, fresh |-> FALSE,
     path |-> "none", allocs |-> 0, frees |-> 0, size |-> 0, failed |-> FALSE,
     prevOnFail |-> Gone]

\* How a call that executed the undefined behaviour f can end.
Outcomes(f) ==
    IF f = {} THEN {"ok"} ELSE {"abort", "continue"}

InitCommon ==
    /\ es = [i \in Inst |-> Gone]
    /\ live = {}
    /\ heap = [a \in Addr |-> FreeBlock]
    /\ proc = "running"
    /\ faults = {}
    /\ last = [i \in Inst |-> <<>>]
    /\ lastOp = NoOp

\* No TLL exists.
NoTLL ==
    /\ nodes = [n \in Node |-> NullRef]
    /\ self = NULL
    /\ TLLIdle

Init ==
    InitCommon /\ oom = FALSE /\ NoTLL

InitOOM ==
    InitCommon /\ oom = TRUE /\ NoTLL

\* The process dies in the middle of a call: nothing of it is left to observe.
Abort ==
    /\ proc' = "aborted"
    /\ UNCHANGED <<es, live, heap, last>>

\* let es[i] = EscadraString::new(), in the free slot i.
CallNew(i) ==
    /\ proc = "running"
    /\ i \notin live
    /\ es' = [es EXCEPT ![i] = new]
    /\ live' = live \cup {i}
    /\ last' = [last EXCEPT ![i] = <<>>]
    /\ lastOp' = [NoOp EXCEPT !.op = "new", !.inst = i]
    /\ UNCHANGED <<heap, proc, faults, oom>>
    /\ UNCHANGED tllVars

\* What lastOp records of a call that ran set_string on e with result res.
OpRecord(op, i, src, e, res) ==
    [op |-> op, inst |-> i, src |-> src, prevCap |-> e.max_length,
     fresh |-> e = new, path |-> res.path,
     allocs |-> res.allocs, frees |-> res.frees, size |-> res.size,
     failed |-> res.failed, prevOnFail |-> IF res.failed THEN e ELSE Gone]

\* es[i].set_string(&s)
CallSetString(i, s) ==
    /\ proc = "running"
    /\ i \in live
    /\ \E r \in SetStringChoices(es[i], heap, s, oom) :
          \E res \in {set_string(es[i], heap, s, r)} :
             \E o \in Outcomes(res.faults) :
                /\ faults' = faults \cup res.faults
                /\ lastOp' = OpRecord("set_string", i, 0, es[i], res)
                /\ IF o = "abort" THEN Abort
                   ELSE /\ es' = [es EXCEPT ![i] = res.es]
                        /\ heap' = res.heap
                        /\ last' = [last EXCEPT ![i] = s]
                        /\ UNCHANGED <<live, proc>>
    /\ UNCHANGED oom
    /\ UNCHANGED tllVars

\* let es[j] = es[i].clone(), in the free slot j.
CallClone(i, j) ==
    /\ proc = "running"
    /\ i \in live
    /\ j \notin live
    /\ \E r \in SetStringChoices(new, heap, get_string(es[i], heap), oom) :
          \E res \in {clone(es[i], heap, r)} :
             \E o \in Outcomes(res.faults \cup ReadFaults(es[i], heap)) :
                /\ faults' = faults \cup res.faults \cup ReadFaults(es[i], heap)
                /\ lastOp' = OpRecord("clone", j, i, new, res)
                /\ IF o = "abort" THEN Abort
                   ELSE /\ es' = [es EXCEPT ![j] = res.es]
                        /\ heap' = res.heap
                        /\ last' = [last EXCEPT ![j] = get_string(es[i], heap)]
                        /\ live' = live \cup {j}
                        /\ proc' = proc
    /\ UNCHANGED oom
    /\ UNCHANGED tllVars

\* es[i] goes out of scope.
CallDrop(i) ==
    /\ proc = "running"
    /\ i \in live
    /\ \E o \in Outcomes(DropFaults(es[i], heap)) :
          /\ faults' = faults \cup DropFaults(es[i], heap)
          /\ lastOp' = [NoOp EXCEPT !.op = "drop", !.inst = i,
                           !.prevCap = es[i].max_length,
                           !.frees = IF es[i].max_length > InlineCap
                                     THEN 1 ELSE 0]
          /\ IF o = "abort" THEN Abort
             ELSE /\ heap' = drop(es[i], heap)
                  /\ es' = [es EXCEPT ![i] = Gone]
                  /\ live' = live \ {i}
                  /\ last' = [last EXCEPT ![i] = <<>>]
                  /\ proc' = proc
    /\ UNCHANGED oom
    /\ UNCHANGED tllVars

\* let es[j] = decode(encode(&es[i])) in the free slot j, as the serde
\* attributes make it: Serialize clones es[i] and turns the clone into a
\* String (dropping the clone), Deserialize builds es[j] from that String.
CallRoundTrip(i, j) ==
    /\ proc = "running"
    /\ i \in live
    /\ j \notin live
    /\ \E r1 \in SetStringChoices(new, heap, get_string(es[i], heap), oom) :
          \E tmp \in {clone(es[i], heap, r1)} :
             \E s \in {into_string(tmp.es, tmp.heap)} :
                \E h2 \in {into_string_heap(tmp.es, tmp.heap)} :
                   \E r2 \in SetStringChoices(new, h2, s, oom) :
                      \E res \in {from_string(s, h2, r2)} :
                         \E f \in {ReadFaults(es[i], heap) \cup tmp.faults
                                   \cup ReadFaults(tmp.es, tmp.heap)
                                   \cup DropFaults(tmp.es, tmp.heap)
                                   \cup res.faults} :
                            \E o \in Outcomes(f) :
                               /\ faults' = faults \cup f
                               /\ lastOp' = OpRecord("round_trip", j, i, new, res)
                               /\ IF o = "abort" THEN Abort
                                  ELSE /\ es' = [es EXCEPT ![j] = res.es]
                                       /\ heap' = res.heap
                                       /\ last' = [last EXCEPT ![j] = s]
                                       /\ live' = live \cup {j}
                                       /\ proc' = proc
    /\ UNCHANGED oom
    /\ UNCHANGED tllVars

Next ==
    \/ \E i \in Inst : CallNew(i)
    \/ \E i \in Inst, s \in Texts : CallSetString(i, s)
    \/ \E i \in Inst, j \in Inst : CallClone(i, j)
    \/ \E i \in Inst, j \in Inst : CallRoundTrip(i, j)
    \/ \E i \in Inst : CallDrop(i)

\* The allocator satisfies every request.
Spec ==
    Init /\ [][Next]_vars

\* The allocator may fail any request.
SpecOOM ==
    InitOOM /\ [][Next]_vars

\* ------------------------------------------------------------ TLL actions
\* A graph of TLLs and the one explore or print will be called on.
InitTLL ==
    /\ InitCommon
    /\ oom = FALSE
    /\ nodes \in Graphs
    /\ self \in Node
    /\ TLLIdle

\* TLL::explore: empty visited and result, then explore_internal on self,
\* which inserts self into both before it looks at a pointer.
CallExplore ==
    /\ status = "idle"
    /\ self \in Node
    /\ status' = "exploring"
    /\ visited' = {self}
    /\ result' = Insert(<<>>, self, nodes[self])
    /\ stack' = <<[node |-> self, at |-> "a"]>>
    /\ calls' = <<self>>
    /\ steps' = steps + 1
    /\ UNCHANGED <<nodes, self, printed>>
    /\ UNCHANGED esVars

\* explore_internal: the pointer in the current slot is set and not visited,
\* so explore_internal is called on it and inserts it into visited and result.
ExploreDescend ==
    /\ status = "exploring"
    /\ stack # <<>>
    /\ Head(stack).at # "ret"
    /\ \E p \in {nodes[Head(stack).node][Head(stack).at]} :
          /\ Unvisited(p, visited)
          /\ visited' = visited \cup {p}
          /\ result' = Insert(result, p, nodes[p])
          /\ stack' = <<[node |-> p, at |-> "a"],
                        [Head(stack) EXCEPT !.at = After(Head(stack).at)]>>
                      \o Tail(stack)
          /\ calls' = Append(calls, p)
    /\ steps' = steps + 1
    /\ UNCHANGED <<nodes, self, status, printed>>
    /\ UNCHANGED esVars

\* explore_internal: the pointer in the current slot is null or visited.
ExploreSkip ==
    /\ status = "exploring"
    /\ stack # <<>>
    /\ Head(stack).at # "ret"
    /\ ~Unvisited(nodes[Head(stack).node][Head(stack).at], visited)
    /\ stack' = <<[Head(stack) EXCEPT !.at = After(Head(stack).at)]>>
                \o Tail(stack)
    /\ steps' = steps + 1
    /\ UNCHANGED <<nodes, self, status, visited, result, printed, calls>>
    /\ UNCHANGED esVars

\* explore_internal returns; explore returns result when the outermost does.
ExploreReturn ==
    /\ status = "exploring"
    /\ stack # <<>>
    /\ Head(stack).at = "ret"
    /\ stack' = Tail(stack)
    /\ status' = IF Tail(stack) = <<>> THEN "explored" ELSE status
    /\ steps' = steps + 1
    /\ UNCHANGED <<nodes, self, visited, result, printed, calls>>
    /\ UNCHANGED esVars

\* TLL::print: self is inserted into an empty visited, then print_internal is
\* called on self at depth 0 and writes its block.
CallPrint ==
    /\ status = "idle"
    /\ self \in Node
    /\ status' = "printing"
    /\ visited' = {self}
    /\ printed' = <<Block(self, 0)>>
    /\ stack' = <<[node |-> self, at |-> "a", depth |-> 0]>>
    /\ calls' = <<self>>
    /\ steps' = steps + 1
    /\ UNCHANGED <<nodes, self, result>>
    /\ UNCHANGED esVars

\* print_internal: the pointer in the current slot is set and not visited, so
\* it is inserted into visited and print_internal is called on it one level
\* deeper.
PrintDescend ==
    /\ status = "printing"
    /\ stack # <<>>
    /\ Head(stack).at # "ret"
    /\ \E p \in {nodes[Head(stack).node][Head(stack).at]} :
          /\ Unvisited(p, visited)
          /\ visited' = visited \cup {p}
          /\ printed' = Append(printed, Block(p, Head(stack).depth + 1))
          /\ stack' = <<[node |-> p, at |-> "a", depth |-> Head(stack).depth + 1],
                        [Head(stack) EXCEPT !.at = After(Head(stack).at)]>>
                      \o Tail(stack)
          /\ calls' = Append(calls, p)
    /\ steps' = steps + 1
    /\ UNCHANGED <<nodes, self, status, result>>
    /\ UNCHANGED esVars

\* print_internal: the pointer in the current slot is null or visited.
PrintSkip ==
    /\ status = "printing"
    /\ stack # <<>>
    /\ Head(stack).at # "ret"
    /\ ~Unvisited(nodes[Head(stack).node][Head(stack).at], visited)
    /\ stack' = <<[Head(stack) EXCEPT !.at = After(Head(stack).at)]>>
                \o Tail(stack)
    /\ steps' = steps + 1
    /\ UNCHANGED <<nodes, self, status, visited, result, printed, calls>>
    /\ UNCHANGED esVars

\* print_internal returns; print returns when the outermost does.
PrintReturn ==
    /\ status = "printing"
    /\ stack # <<>>
    /\ Head(stack).at = "ret"
    /\ stack' = Tail(stack)
    /\ status' = IF Tail(stack) = <<>> THEN "printed" ELSE status
    /\ steps' = steps + 1
    /\ UNCHANGED <<nodes, self, visited, result, printed, calls>>
    /\ UNCHANGED esVars

NextTLL ==
    \/ CallExplore
    \/ ExploreDescend
    \/ ExploreSkip
    \/ ExploreReturn
    \/ CallPrint
    \/ PrintDescend
    \/ PrintSkip
    \/ PrintReturn

SpecTLL ==
    InitTLL /\ [][NextTLL]_vars

\* ------------------------------------------------------------ properties
HeapBacked(e) ==
    e.max_length > InlineCap

\* The buffer e points to is a block libc has handed out and not taken back.
BufferLive(e, h) ==
    ReadPointer(e.string) \in Addr /\ h[ReadPointer(e.string)].live

\* The instance the latest call acted on.
Target ==
    es[lastOp.inst]

AfterSetString ==
    proc = "running" /\ lastOp.op = "set_string"

\* C1: whatever set_string calls an instance has seen, get_string returns the
\* argument of the latest one and length is that argument's byte length.
C1_GetReturnsLatestSet ==
    \A i \in live :
        proc = "running" =>
            /\ get_string(es[i], heap) = last[i]
            /\ es[i].length = Len(last[i])

\* C1 witness: a long text, then a shorter text that still goes to the heap,
\* read back from a buffer the instance has grown past.
C1_Witness ==
    /\ AfterSetString
    /\ lastOp.prevCap > 2 * InlineSize
    /\ last[lastOp.inst] = Text(1, InlineSize)
    /\ get_string(Target, heap) = Text(1, InlineSize)

\* C2: set_string of a text of at most 15 bytes on a freshly constructed
\* instance keeps max_length at 15, stores the text in the inline buffer and
\* allocates nothing.
C2_FreshShortStaysInline ==
    (AfterSetString /\ lastOp.fresh /\ Len(last[lastOp.inst]) <= InlineCap) =>
        /\ Target.max_length = InlineCap
        /\ Target.string = CharsOf(InlineBuffer(last[lastOp.inst]))
        /\ lastOp.allocs = 0
        /\ \A a \in Addr : ~heap[a].live \/ \E j \in live \ {lastOp.inst} :
               HeapBacked(es[j]) /\ ReadPointer(es[j].string) = a

\* C2 witness: a fresh instance was given a text of exactly 15 bytes.
C2_Witness ==
    /\ AfterSetString
    /\ lastOp.fresh
    /\ Len(last[lastOp.inst]) = InlineCap
    /\ Target.max_length = InlineCap

\* C3: after set_string of a text longer than 15 bytes the instance is heap
\* backed with max_length >= the text's length, get_string returns the text,
\* and the call allocated exactly once.
C3_LongGoesToHeap ==
    (AfterSetString /\ Len(last[lastOp.inst]) > InlineCap) =>
        /\ HeapBacked(Target)
        /\ Target.string.tag = "pointer"
        /\ BufferLive(Target, heap)
        /\ Target.max_length >= Len(last[lastOp.inst])
        /\ get_string(Target, heap) = last[lastOp.inst]
        /\ lastOp.allocs = 1

\* C3 witness: a text of exactly 16 bytes was set on an inline instance.
C3_Witness ==
    /\ AfterSetString
    /\ lastOp.prevCap = InlineCap
    /\ Len(last[lastOp.inst]) = InlineSize
    /\ HeapBacked(Target)

\* C4: no buffer is freed twice, nothing that was never allocated is freed,
\* every buffer in use belongs to exactly one existing instance (so none has
\* leaked), and once every instance is dropped no buffer is left in use.
C4_NoLeakNoDoubleFree ==
    /\ faults \cap {"double_free", "invalid_free"} = {}
    /\ proc = "running" =>
          /\ \A a \in Addr :
                heap[a].live =>
                    Cardinality({i \in live : HeapBacked(es[i])
                                   /\ ReadPointer(es[i].string) = a}) = 1
          /\ \A i \in live : HeapBacked(es[i]) => BufferLive(es[i], heap)
          /\ live = {} => \A a \in Addr : ~heap[a].live

\* C4 witness: the last instance, a heap-backed one, has just been dropped and
\* the heap is empty again.
C4_Witness ==
    /\ lastOp.op = "drop"
    /\ lastOp.frees = 1
    /\ live = {}
    /\ \A a \in Addr : ~heap[a].live

\* C5: when malloc returns NULL in set_string, the instance keeps its previous
\* valid state or the process aborts; no instance holds a null or freed heap
\* pointer and nothing is written through one.
C5_AllocFailureIsSafe ==
    /\ faults \cap {"null_write", "dangling_write"} = {}
    /\ proc = "running" =>
          /\ \A i \in live : HeapBacked(es[i]) => BufferLive(es[i], heap)
          /\ (lastOp.op = "set_string" /\ lastOp.failed) =>
                Target = lastOp.prevOnFail

\* C6: the byte at offset length of the storage in use (the inline buffer when
\* max_length = 15, the heap buffer otherwise) is 0.
C6_Terminated ==
    \A i \in live :
        proc = "running" =>
            IF HeapBacked(es[i])
            THEN /\ BufferLive(es[i], heap)
                 /\ es[i].length < Len(heap[ReadPointer(es[i].string)].bytes)
                 /\ heap[ReadPointer(es[i].string)].bytes[es[i].length + 1] = 0
            ELSE /\ es[i].length < InlineSize
                 /\ ReadChars(es[i].string)[es[i].length + 1] = 0

\* C6 witness: both storages at once, the inline buffer full to its last
\* content byte and a heap buffer holding a short text after a long one.
C6_Witness ==
    /\ AfterSetString
    /\ \E i \in live : ~HeapBacked(es[i]) /\ es[i].length = InlineCap
    /\ \E i \in live : HeapBacked(es[i]) /\ es[i].length = InlineCap

\* C7: length <= max_length; max_length = 15 exactly when the storage is the
\* inline buffer; max_length > 15 exactly when the storage is a heap block in
\* use, of max_length + 1 bytes, that no other instance points to.
C7_Representation ==
    \A i \in live :
        proc = "running" =>
            /\ es[i].length <= es[i].max_length
            /\ es[i].max_length >= InlineCap
            /\ (es[i].max_length = InlineCap) <=> (es[i].string.tag = "chars")
            /\ HeapBacked(es[i]) <=>
                  /\ es[i].string.tag = "pointer"
                  /\ BufferLive(es[i], heap)
                  /\ Len(heap[ReadPointer(es[i].string)].bytes)
                        = es[i].max_length + 1
                  /\ \A j \in live \ {i} :
                        ReadPointer(es[j].string) # ReadPointer(es[i].string)

\* C7 witness: a heap-backed instance and its clone, both existing.
C7_Witness ==
    /\ proc = "running"
    /\ lastOp.op = "clone"
    /\ HeapBacked(es[lastOp.src])
    /\ HeapBacked(Target)

\* m is a power of two: it has no odd divisor but 1.
IsPow2(m) ==
    m >= 1 /\ \A d \in 2..m : m % d = 0 => d % 2 = 0

\* c = (p + 1) * 2^k - 1 for some k >= 0.
IsGrowthForm(c, p) ==
    (c + 1) % (p + 1) = 0 /\ IsPow2((c + 1) \div (p + 1))

\* C8: on the reallocation path with previous capacity p and a text of n
\* bytes, the new capacity is the smallest (p + 1) * 2^k - 1 that is >= n, and
\* the buffer allocated has that capacity + 1 bytes.
C8_GrowthPolicy ==
    (AfterSetString /\ lastOp.path = "realloc") =>
        /\ IsGrowthForm(Target.max_length, lastOp.prevCap)
        /\ Target.max_length >= Target.length
        /\ \A c \in Target.length..(Target.max_length - 1) :
              ~IsGrowthForm(c, lastOp.prevCap)
        /\ lastOp.size = Target.max_length + 1
        /\ BufferLive(Target, heap)
        /\ Len(heap[ReadPointer(Target.string)].bytes) = Target.max_length + 1

\* C8 witness: the buffer had to be doubled more than once, so the capacity is
\* well above the text's length.
C8_Witness ==
    /\ AfterSetString
    /\ lastOp.prevCap = InlineCap
    /\ Target.length >= 2 * InlineSize
    /\ Target.max_length = 4 * InlineSize - 1

\* C9: set_string on a heap-backed instance takes the reallocation path and
\* leaves it heap backed, whatever the length of the text.
C9_NeverDemotes ==
    (AfterSetString /\ lastOp.prevCap > InlineCap) =>
        /\ lastOp.path = "realloc"
        /\ HeapBacked(Target)
        /\ Target.string.tag = "pointer"
        /\ Target.max_length >= lastOp.prevCap

\* C9 witness: the empty text was set on a heap-backed instance.
C9_Witness ==
    /\ AfterSetString
    /\ lastOp.prevCap > InlineCap
    /\ Target.length = 0
    /\ HeapBacked(Target)

\* No two existing instances point to the same buffer.
NoSharedBuffer ==
    \A i \in live : \A j \in live \ {i} :
        (HeapBacked(es[i]) /\ HeapBacked(es[j])) =>
            ReadPointer(es[i].string) # ReadPointer(es[j].string)

\* A call on one instance leaves every other existing instance as it was: its
\* fields, what get_string returns, and its buffer being in use.
OthersUntouched ==
    \A j \in live \cap live' :
        (proc' = "running" /\ lastOp'.inst # j) =>
            /\ es'[j] = es[j]
            /\ get_string(es[j], heap)' = get_string(es[j], heap)
            /\ HeapBacked(es[j]) => BufferLive(es[j], heap)'

\* C10: an instance and its clone never share a buffer, and set_string on or
\* drop of either leaves the other's get_string result and its buffer alone.
C10_DeepCopyIndependent ==
    []NoSharedBuffer /\ [][OthersUntouched]_vars

\* C10 witness: after a clone of a heap-backed instance, one of the two was
\* given another text and the two now differ, each in its own buffer.
C10_Witness ==
    /\ AfterSetString
    /\ \E j \in live \ {lastOp.inst} :
          /\ HeapBacked(es[j])
          /\ HeapBacked(Target)
          /\ get_string(es[j], heap) = Text(1, MaxLen)
          /\ get_string(Target, heap) = Text(1, InlineSize)
          /\ ReadPointer(es[j].string) # ReadPointer(Target.string)

\* An instance made from text t by new and set_string, as a value to compare
\* with: the instance and the heap that holds its buffer, one per address
\* malloc may return.
Thirds(t) ==
    {set_string(new, heap, t, r) : r \in SetStringChoices(new, heap, t, FALSE)}

\* C11: two instances that were given the same text are equal, order the same
\* way against any third instance and hash the same, whatever their
\* representations; two that were given different texts are not equal.
C11_ContentOnly ==
    proc = "running" =>
        /\ \A i \in live : \A j \in live :
              IF last[i] = last[j]
              THEN /\ eq(es[i], es[j], heap)
                   /\ cmp(es[i], es[j], heap) = "Equal"
                   /\ hash(es[i], heap) = hash(es[j], heap)
              ELSE /\ ~eq(es[i], es[j], heap)
                   /\ cmp(es[i], es[j], heap) = StrCmp(last[i], last[j])
        /\ \A t \in Texts : \A x \in Thirds(t) : \A i \in live :
              /\ cmp(es[i], x.es, x.heap) = StrCmp(last[i], t)
              /\ eq(es[i], x.es, x.heap) <=> (last[i] = t)

\* C11 witness: the same 15-byte text in an inline instance and in one that is
\* heap backed after growing and shrinking.
C11_Witness ==
    /\ proc = "running"
    /\ \E i \in live : \E j \in live :
          /\ es[i].max_length = InlineCap
          /\ es[j].max_length > InlineCap
          /\ last[i] = Text(1, InlineCap)
          /\ last[j] = Text(1, InlineCap)
          /\ eq(es[i], es[j], heap)
          /\ hash(es[i], heap) = hash(es[j], heap)

\* The capacity new and set_string give a text of n bytes: 15 when it fits the
\* inline buffer, else the smallest 16 * 2^k - 1 that holds it.
IsNormalCapacity(c, n) ==
    /\ c >= n
    /\ IsGrowthForm(c, InlineCap)
    /\ \A c2 \in n..(c - 1) : ~IsGrowthForm(c2, InlineCap)

\* C12: turning an instance into a String and building an instance from that
\* String gives an instance with the same get_string; its length and
\* max_length follow from the text alone, not from the original's fields.
C12_RoundTrip ==
    (proc = "running" /\ lastOp.op = "round_trip") =>
        /\ get_string(Target, heap) = get_string(es[lastOp.src], heap)
        /\ get_string(Target, heap) = last[lastOp.src]
        /\ Target.length = Len(last[lastOp.src])
        /\ IsNormalCapacity(Target.max_length, Len(last[lastOp.src]))
        /\ eq(Target, es[lastOp.src], heap)

\* C12 witness: round trips of a heap-backed instance, one holding a long text
\* and one holding a short text whose copy comes back inline.
C12_Witness ==
    /\ proc = "running"
    /\ lastOp.op = "round_trip"
    /\ es[lastOp.src].max_length = 4 * InlineSize - 1
    /\ es[lastOp.src].length = InlineSize
    /\ Target.max_length = 2 * InlineSize - 1
    /\ get_string(Target, heap) = Text(1, InlineSize)

\* C14: clone gives the copy the capacity of a fresh instance holding the same
\* text (15, or the smallest 16 * 2^k - 1 that holds it) whatever the
\* original's capacity is: a heap-backed original with at most 15 bytes of
\* text has an inline copy made without an allocation. A set_string never
\* lowers the capacity of the instance it is called on.
C14_CloneNormalises ==
    /\ (proc = "running" /\ lastOp.op = "clone") =>
          /\ IsNormalCapacity(Target.max_length, Target.length)
          /\ Target.length = es[lastOp.src].length
          /\ (Target.length <= InlineCap) =>
                /\ Target.max_length = InlineCap
                /\ Target.string.tag = "chars"
                /\ lastOp.allocs = 0
                /\ lastOp.path = "inline"
    /\ AfterSetString => Target.max_length >= lastOp.prevCap

\* C14 witness: a heap-backed original holding 15 bytes has just been cloned.
C14_Witness ==
    /\ proc = "running"
    /\ lastOp.op = "clone"
    /\ HeapBacked(es[lastOp.src])
    /\ es[lastOp.src].length = InlineCap
    /\ Target.max_length = InlineCap
    /\ Target.max_length < es[lastOp.src].max_length

\* The TLLs a pointer of n leads to.
Succ(n) ==
    {nodes[n][f] : f \in Slots} \ {NULL}

RECURSIVE ReachFrom(_)
ReachFrom(S) ==
    LET T == S \cup UNION {Succ(n) : n \in S}
    IN  IF T = S THEN S ELSE ReachFrom(T)

\* The TLLs reachable from self through non-null a, b and c pointers.
Reachable ==
    ReachFrom({self})

Range(q) ==
    {q[k] : k \in DOMAIN q}

Traversing ==
    status \in {"exploring", "printing"}

Finished ==
    status \in {"explored", "printed"}

\* C13: explore and print end on every graph of TLLs, with cycles, pointers
\* of a TLL to itself and TLLs pointed to from several places: a traversal
\* that is not finished can always take a step, and takes at most four per
\* reachable TLL after the first; explore_internal / print_internal is never
\* called twice on a TLL, and when the traversal has finished it has been
\* called on exactly the TLLs reachable from self. The result of explore then
\* has exactly these TLLs as keys, each with its own a, b and c; print has
\* written one block for each.
C13_TraversalVisitsOnce ==
    /\ \A k1 \in DOMAIN calls : \A k2 \in DOMAIN calls :
          calls[k1] = calls[k2] => k1 = k2
    /\ Range(calls) \subseteq Reachable
    /\ steps <= 4 * Cardinality(Reachable) + 1
    /\ Traversing => ENABLED NextTLL
    /\ Finished =>
          /\ stack = <<>>
          /\ Range(calls) = Reachable
          /\ Len(calls) = Cardinality(Reachable)
          /\ steps = 4 * Cardinality(Reachable) + 1
    /\ (status = "explored") =>
          /\ DOMAIN result = Reachable
          /\ \A n \in Reachable : result[n] = nodes[n]
    /\ (status = "printed") =>
          /\ Len(printed) = Cardinality(Reachable)
          /\ \A k \in DOMAIN printed :
                /\ printed[k].tll = calls[k]
                /\ printed[k].a = nodes[calls[k]].a
                /\ printed[k].b = nodes[calls[k]].b
                /\ printed[k].c = nodes[calls[k]].c

\* C13 witness: explore has finished on a graph in which self points to
\* itself and to a second TLL, which points back to self.
C13_Witness ==
    /\ status = "explored"
    /\ self \in Succ(self)
    /\ \E n \in Succ(self) : n # self /\ self \in Succ(n)
    /\ Cardinality(DOMAIN result) > 1

====
